---- MODULE Spec2Model ----
(***************************************************************************)
(* Chat relay of src/main.py: Tornado WebSocketHandler (open, on_message,  *)
(* on_close, update_clients_list) on the I/O loop, the Redis set           *)
(* "online_clients", the Redis channel "chat_channel", and redis_listener  *)
(* running on its own thread in every server process.                      *)
(*                                                                         *)
(* Handlers of the I/O loop run to completion (they contain no await), so  *)
(* each is one action.  The listener thread is a different thread: its     *)
(* delivery loop is one step per recipient and interleaves with handlers.  *)
(***************************************************************************)
EXTENDS Naturals, Integers, Sequences, FiniteSets, TLC

\* ---- bounds ----
MaxConns == 3
NumProcs == 2
MaxMsgs == 2
MaxClosing == 1
MaxLoad == 5
MaxFaults == 1

Conns == 1..MaxConns
Procs == 1..NumProcs

\* ---- inputs ----
NoArg == "<none>"
\* the value of the username query argument as the client sent it
UsernameArgs == {NoArg, "", " ", "alice", " alice "}
\* str(uuid.uuid4())[:8]: a fresh value for every call
Uuid4Pool == <<"1f0e3dad", "9b2c4a7e", "c0ffee00", "5d6e7f80", "0a1b2c3d">>
TextPool == <<"hello", "", "bye", "ok">>
Texts == {TextPool[i] : i \in 1..MaxMsgs}

NoName == "<unset>"
NoExc == [op |-> "none", kind |-> "none"]
NoData == <<>>

VARIABLES
    status,     \* per connection: "new" (not accepted), "open" (open() ran), "closed" (on_close() ran)
    proc,       \* per connection: the server process that accepted it (0 before)
    username,   \* per connection: self.username
    alive,      \* per connection: the channel accepts write_message
    clients,    \* per process: WebSocketHandler.clients
    online,     \* the Redis set "online_clients"
    outbox,     \* per connection: what write_message has sent to it (see received)
    lpc,        \* per process: position of redis_listener
    queue,      \* per process: messages waiting in its subscription
    cur,        \* per process: data of the message being delivered
    it_used,    \* per process: set size recorded by the iterator of the delivery loop
    it_rest,    \* per process: members still ahead of that iterator
    it_seen,    \* per process: registry as that iterator last saw it
    lexc,       \* per process: the exception that ended redis_listener, "none" while it runs
    exc,        \* exception raised by the last handler of the I/O loops, NoExc when it returned
    closing,    \* number of channels that started closing before their on_close ran
    pubBy,      \* per text: connection whose on_message published it (0: not yet)
    pubTo,      \* per text: registered connections of subscribed processes at publish time
    pubSeq,     \* the texts in the order redis_client.publish accepted them
    dropped,    \* the texts whose redis_client.publish raised
    faults      \* how many Presence Store or Message Bus calls have raised

vars == <<status, proc, username, alive, clients, online, outbox, lpc, queue, cur,
          it_used, it_rest, it_seen, lexc, exc, closing, pubBy, pubTo, pubSeq,
          dropped, faults>>

connVars == <<status, proc, username, alive, clients, online>>
listenerVars == <<lpc, queue, cur, it_used, it_rest, it_seen, lexc>>
pubVars == <<closing, pubBy, pubTo, pubSeq, dropped, faults>>

\* ---- envelopes and their serialisation ----
\* the greeting of the source is Russian text; it is written here in Latin letters
welcome_envelope(name) ==
    [type |-> "welcome", message |-> "Dobro pozhalovat v chat, " \o name \o "!"]

message_envelope(sender, text) ==
    [type |-> "message", data |-> [sender |-> sender, message |-> text]]

clients_envelope(names) ==
    [type |-> "clients", clients |-> names]

\* json.dumps: the object as its sequence of keys and values, in key order
json_dumps(d) ==
    IF d.type = "message"
    THEN <<"type", d.type, "data", <<"sender", d.data.sender, "message", d.data.message>>>>
    ELSE IF d.type = "clients"
    THEN <<"type", d.type, "clients", d.clients>>
    ELSE <<"type", d.type, "message", d.message>>

\* json.loads: the object a serialised sequence denotes
json_loads(s) ==
    IF s[2] = "message"
    THEN [type |-> s[2], data |-> [sender |-> s[4][2], message |-> s[4][4]]]
    ELSE IF s[2] = "clients"
    THEN [type |-> s[2], clients |-> s[4]]
    ELSE [type |-> s[2], message |-> s[4]]

\* ---- helpers of the handlers ----
generated_username(u) == "User-" \o u

\* str.strip on the arguments above: the part between the leading and the
\* trailing whitespace.
Whitespace == {"", " ", "  "}
Unpadded == {"", "alice"}
str_strip(s) == CHOOSE t \in Unpadded : \E a, b \in Whitespace : s = a \o t \o b

\* self.get_argument("username", None): the default when the argument is
\* missing; otherwise its value, which get_argument strips (strip=True is
\* its default).
get_argument(arg) == IF arg = NoArg THEN NoArg ELSE str_strip(arg)

\* `if not self.username` that tests for None only
assigned_username_none_only(value, u) ==
    IF value = NoArg THEN generated_username(u) ELSE value

\* lines 35-36: a generated name replaces a missing or empty username
assigned_username(value, u) ==
    IF value = NoArg \/ value = "" THEN generated_username(u) ELSE value

registry_add(reg, c) == reg \cup {c}

\* on_close without its clients.remove(self)
registry_remove_forgotten(reg, c) == reg

registry_remove(reg, c) == reg \ {c}

presence_add(set, name) == set \cup {name}

\* srem that keeps the name while another open connection uses it
presence_remove_if_unused(set, name) ==
    IF Cardinality({e \in Conns : status[e] = "open" /\ username[e] = name}) > 1
    THEN set
    ELSE set \ {name}

presence_remove(set, name) == set \ {name}

\* What a connection has been sent, kept per type of envelope: the roster it
\* holds (the last "clients" payload) and how many it was sent, the "message"
\* payloads in order, the "welcome" payloads in order.
NoOutbox == [clients |-> NoData, nclients |-> 0, chat |-> <<>>, welcome |-> <<>>]

\* write_message(payload) on a writable connection whose record is rec
received(rec, payload) ==
    IF payload[2] = "clients"
    THEN [rec EXCEPT !.clients = payload, !.nclients = @ + 1]
    ELSE IF payload[2] = "message"
    THEN [rec EXCEPT !.chat = Append(@, payload)]
    ELSE [rec EXCEPT !.welcome = Append(@, payload)]

\* write_message to every connection of R
write_all(box, R, payload) ==
    [d \in Conns |-> IF d \in R THEN received(box[d], payload) ELSE box[d]]

\* update_clients_list: the outcomes of the loop over self.clients.  The loop
\* visits the set in an arbitrary order and the first write_message that
\* raises ends it, so the recipients are any set of writable members when
\* some member is not writable.
update_clients_list(reg, names, al, box) ==
    LET payload == json_dumps(clients_envelope(names))
        dead == {d \in reg : ~al[d]}
    IN  IF dead = {}
        THEN {[outbox |-> write_all(box, reg, payload), raised |-> FALSE]}
        ELSE {[outbox |-> write_all(box, R, payload), raised |-> TRUE] :
                 R \in SUBSET (reg \ dead)}

\* the listener of p holds a subscription to "chat_channel" and reads it
Subscribed(p) == lpc[p] \in {"listen", "deliver"}

\* publish that puts the message ahead of the ones a subscriber has not read
redis_publish_front(q, item, failed) == IF failed THEN q ELSE <<item>> \o q

\* redis_client.publish as one subscriber's channel sees it: the message joins
\* the end of what the subscriber has yet to read; a call that raises (the
\* server cannot be reached) hands the server nothing.
redis_publish(q, item, failed) == IF failed THEN q ELSE Append(q, item)

\* processes started, connections accepted, messages published, channels that
\* started closing and Redis calls that raised so far; MaxLoad bounds their sum
\* in one run
Load ==
    Cardinality({p \in Procs : lpc[p] # "off"})
    + Cardinality({c \in Conns : status[c] # "new"})
    + Cardinality({t \in Texts : pubBy[t] # 0})
    + closing
    + faults

Raised(op, kind) == [op |-> op, kind |-> kind]

Init ==
    /\ status = [c \in Conns |-> "new"]
    /\ proc = [c \in Conns |-> 0]
    /\ username = [c \in Conns |-> NoName]
    /\ alive = [c \in Conns |-> FALSE]
    /\ clients = [p \in Procs |-> {}]
    /\ online = {}
    /\ outbox = [c \in Conns |-> NoOutbox]
    /\ lpc = [p \in Procs |-> "off"]
    /\ queue = [p \in Procs |-> <<>>]
    /\ cur = [p \in Procs |-> NoData]
    /\ it_used = [p \in Procs |-> 0]
    /\ it_rest = [p \in Procs |-> {}]
    /\ it_seen = [p \in Procs |-> {}]
    /\ lexc = [p \in Procs |-> "none"]
    /\ exc = NoExc
    /\ closing = 0
    /\ pubBy = [t \in Texts |-> 0]
    /\ pubTo = [t \in Texts |-> {}]
    /\ pubSeq = <<>>
    /\ dropped = {}
    /\ faults = 0

\* WebSocketHandler.open on process p with query argument arg.  Connections
\* are numbered in the order they are accepted.
open(c, p, arg) ==
    /\ status[c] = "new"
    /\ lpc[p] # "off"
    /\ Load < MaxLoad
    /\ \A b \in Conns : b < c => status[b] # "new"
    /\ \E u \in {Uuid4Pool[c]} :
         LET name == assigned_username(get_argument(arg), u)
             reg == registry_add(clients[p], c)
             names == presence_add(online, name)
             al == [alive EXCEPT ![c] = TRUE]
         IN  \E r \in update_clients_list(reg, names, al, outbox) :
               /\ status' = [status EXCEPT ![c] = "open"]
               /\ proc' = [proc EXCEPT ![c] = p]
               /\ username' = [username EXCEPT ![c] = name]
               /\ alive' = al
               /\ clients' = [clients EXCEPT ![p] = reg]
               /\ online' = names
               /\ outbox' = IF r.raised
                            THEN r.outbox
                            ELSE write_all(r.outbox, {c}, json_dumps(welcome_envelope(name)))
               /\ exc' = IF r.raised THEN Raised("open", "WebSocketClosedError") ELSE NoExc
    /\ UNCHANGED <<listenerVars, pubVars>>

\* WebSocketHandler.on_message with payload text.  Every text is published at
\* most once, which bounds the run and tells the publications apart.
on_message(c, text) ==
    /\ status[c] = "open"
    /\ alive[c]
    /\ pubBy[text] = 0
    /\ Load < MaxLoad
    /\ LET payload == json_dumps(message_envelope(username[c], text))
       IN  queue' = [p \in Procs |->
                        IF Subscribed(p)
                        THEN redis_publish(queue[p], [type |-> "message", data |-> payload], FALSE)
                        ELSE queue[p]]
    /\ pubBy' = [pubBy EXCEPT ![text] = c]
    /\ pubTo' = [pubTo EXCEPT ![text] = UNION {clients[p] : p \in {q \in Procs : Subscribed(q)}}]
    /\ pubSeq' = Append(pubSeq, text)
    /\ exc' = NoExc
    /\ UNCHANGED <<connVars, outbox, lpc, cur, it_used, it_rest, it_seen, lexc, closing,
                   dropped, faults>>

\* The exception a call of on_close(c) ends with, "none" when it returns:
\* set.remove raises KeyError when self is not a member, and the broadcast
\* raises when a remaining member is not writable.
on_close_exception(reg, al, c) ==
    IF c \notin reg
    THEN "KeyError"
    ELSE IF \E d \in registry_remove(reg, c) : ~al[d]
    THEN "WebSocketClosedError"
    ELSE "none"

\* on_close that forgets clients.remove(self) and runs while the channel
\* still accepts writes
on_close_keeps_member(c) ==
    /\ status[c] = "open"
    /\ LET names == presence_remove(online, username[c])
       IN  \E r \in update_clients_list(clients[proc[c]], names, alive, outbox) :
             /\ status' = [status EXCEPT ![c] = "closed"]
             /\ online' = names
             /\ outbox' = r.outbox
             /\ exc' = IF r.raised THEN Raised("on_close", "WebSocketClosedError") ELSE NoExc
    /\ UNCHANGED <<proc, username, alive, clients, listenerVars, pubVars>>

\* WebSocketHandler.on_close
on_close(c) ==
    /\ status[c] \in {"open", "closed"}
    /\ IF on_close_exception(clients[proc[c]], alive, c) = "KeyError"
       THEN /\ exc' = Raised("on_close", "KeyError")
            /\ UNCHANGED <<connVars, outbox>>
       ELSE LET p == proc[c]
                reg == registry_remove(clients[p], c)
                names == presence_remove(online, username[c])
                al == [alive EXCEPT ![c] = FALSE]
            IN  \E r \in update_clients_list(reg, names, al, outbox) :
                  /\ status' = [status EXCEPT ![c] = "closed"]
                  /\ alive' = al
                  /\ clients' = [clients EXCEPT ![p] = reg]
                  /\ online' = names
                  /\ outbox' = r.outbox
                  /\ exc' = IF r.raised
                            THEN Raised("on_close", on_close_exception(clients[p], alive, c))
                            ELSE NoExc
                  /\ UNCHANGED <<proc, username>>
    /\ UNCHANGED <<listenerVars, pubVars>>

\* The channel of an open connection starts closing: from here on
\* write_message raises WebSocketClosedError, and on_close has not run yet.
channel_closing(c) ==
    /\ status[c] = "open"
    /\ alive[c]
    /\ closing < MaxClosing
    /\ Load < MaxLoad
    /\ closing' = closing + 1
    /\ alive' = [alive EXCEPT ![c] = FALSE]
    /\ UNCHANGED <<status, proc, username, clients, online, outbox, listenerVars, exc, pubBy, pubTo, pubSeq,
                   dropped, faults>>

\* __main__ of process p: the application listens, the listener thread starts
\* and subscribes to "chat_channel" (listen() first yields the confirmation of
\* type "subscribe", which the loop passes over), the I/O loop starts.
main(p) ==
    /\ lpc[p] = "off"
    /\ \A q \in Procs : q < p => lpc[q] # "off"
    /\ Load < MaxLoad
    /\ lpc' = [lpc EXCEPT ![p] = "listen"]
    /\ UNCHANGED <<connVars, outbox, queue, cur, it_used, it_rest, it_seen, lexc, exc, pubVars>>

\* redis_listener: next item of pubsub.listen(); a chat message starts the
\* loop over WebSocketHandler.clients
redis_listener_next(p) ==
    /\ lpc[p] = "listen"
    /\ queue[p] # <<>>
    /\ queue' = [queue EXCEPT ![p] = Tail(@)]
    /\ Head(queue[p]).type = "message"
    /\ cur' = [cur EXCEPT ![p] = json_loads(Head(queue[p]).data)]
    /\ it_used' = [it_used EXCEPT ![p] = Cardinality(clients[p])]
    /\ it_rest' = [it_rest EXCEPT ![p] = clients[p]]
    /\ it_seen' = [it_seen EXCEPT ![p] = clients[p]]
    /\ lpc' = [lpc EXCEPT ![p] = "deliver"]
    /\ UNCHANGED <<connVars, outbox, lexc, exc, pubVars>>

\* The members ahead of the set iterator.  The registry is read without a
\* lock: after the I/O loop replaced a member (same size, other members) the
\* table may have been rebuilt, and any members can lie ahead of the iterator.
iterator_ahead(p) ==
    IF clients[p] = it_seen[p] THEN {it_rest[p]} ELSE SUBSET clients[p]

listener_end_pass(p) ==
    /\ cur' = [cur EXCEPT ![p] = NoData]
    /\ it_used' = [it_used EXCEPT ![p] = 0]
    /\ it_rest' = [it_rest EXCEPT ![p] = {}]
    /\ it_seen' = [it_seen EXCEPT ![p] = {}]

\* a delivery loop that catches the failed write and discards the connection
\* from the registry
redis_listener_deliver_discarding(p) ==
    /\ lpc[p] = "deliver"
    /\ IF it_rest[p] = {}
       THEN /\ lpc' = [lpc EXCEPT ![p] = "listen"]
            /\ listener_end_pass(p)
            /\ UNCHANGED <<outbox, clients>>
       ELSE \E c \in it_rest[p] :
              /\ outbox' = IF alive[c] THEN write_all(outbox, {c}, json_dumps(cur[p])) ELSE outbox
              /\ clients' = IF alive[c] THEN clients
                            ELSE [clients EXCEPT ![p] = registry_remove(clients[p], c)]
              /\ it_rest' = [it_rest EXCEPT ![p] = it_rest[p] \ {c}]
              /\ UNCHANGED <<lpc, cur, it_used, it_seen>>
    /\ UNCHANGED <<status, proc, username, alive, online, queue, lexc, exc, pubVars>>

\* redis_listener: one turn of "for client in WebSocketHandler.clients":
\* the iterator's next() and the write_message to the member it yields
redis_listener_deliver(p) ==
    /\ lpc[p] = "deliver"
    /\ IF Cardinality(clients[p]) # it_used[p]
       THEN /\ lpc' = [lpc EXCEPT ![p] = "dead"]
            /\ lexc' = [lexc EXCEPT ![p] = "RuntimeError"]
            /\ listener_end_pass(p)
            /\ UNCHANGED outbox
       ELSE \E ahead \in iterator_ahead(p) :
              IF ahead = {}
              THEN /\ lpc' = [lpc EXCEPT ![p] = "listen"]
                   /\ listener_end_pass(p)
                   /\ UNCHANGED <<outbox, lexc>>
              ELSE \E c \in ahead :
                     IF alive[c]
                     THEN /\ outbox' = write_all(outbox, {c}, json_dumps(cur[p]))
                          /\ it_rest' = [it_rest EXCEPT ![p] = ahead \ {c}]
                          /\ it_seen' = [it_seen EXCEPT ![p] = clients[p]]
                          /\ UNCHANGED <<lpc, cur, it_used, lexc>>
                     ELSE /\ lpc' = [lpc EXCEPT ![p] = "dead"]
                          /\ lexc' = [lexc EXCEPT ![p] = "WebSocketClosedError"]
                          /\ listener_end_pass(p)
                          /\ UNCHANGED outbox
    /\ UNCHANGED <<connVars, queue, exc, pubVars>>

Listener(p) ==
    \/ redis_listener_next(p)
    \/ redis_listener_deliver(p)

Next ==
    \/ \E c \in Conns, p \in Procs, arg \in UsernameArgs : open(c, p, arg)
    \/ \E c \in Conns, text \in Texts : on_message(c, text)
    \/ \E c \in Conns : on_close(c)
    \/ \E c \in Conns : channel_closing(c)
    \/ \E p \in Procs : main(p)
    \/ \E p \in Procs : Listener(p)

Spec == Init /\ [][Next]_vars

\* the listener thread of every process is scheduled again and again
FairSpec == Spec /\ \A p \in Procs : WF_vars(Listener(p))

\* ---- calls of the Redis client that raise ----
\* The handlers call redis_client without try/except, so a call that raises
\* (redis.exceptions.ConnectionError when the server cannot be reached) ends
\* the handler at that line with the earlier lines done; Tornado logs the
\* exception of open or on_message and closes the connection's channel.

\* where a handler's Presence Store call raises
OpenStoreCalls == {"sadd", "smembers"}
CloseStoreCalls == {"srem", "smembers"}

\* open whose sadd (line 39) or whose smembers in update_clients_list (line 92)
\* raises
open_store_fails(c, p, arg, call) ==
    /\ status[c] = "new"
    /\ lpc[p] # "off"
    /\ Load < MaxLoad
    /\ faults < MaxFaults
    /\ \A b \in Conns : b < c => status[b] # "new"
    /\ \E u \in {Uuid4Pool[c]} :
         LET name == assigned_username(get_argument(arg), u)
         IN  /\ status' = [status EXCEPT ![c] = "open"]
             /\ proc' = [proc EXCEPT ![c] = p]
             /\ username' = [username EXCEPT ![c] = name]
             /\ clients' = [clients EXCEPT ![p] = registry_add(clients[p], c)]
             /\ online' = IF call = "sadd" THEN online ELSE presence_add(online, name)
    /\ alive' = [alive EXCEPT ![c] = FALSE]
    /\ exc' = Raised("open", "ConnectionError")
    /\ faults' = faults + 1
    /\ UNCHANGED <<outbox, listenerVars, closing, pubBy, pubTo, pubSeq, dropped>>

\* on_close whose srem (line 72) or whose smembers in update_clients_list
\* (line 92) raises
on_close_store_fails(c, call) ==
    /\ status[c] = "open"
    /\ Load < MaxLoad
    /\ faults < MaxFaults
    /\ status' = [status EXCEPT ![c] = "closed"]
    /\ alive' = [alive EXCEPT ![c] = FALSE]
    /\ clients' = [clients EXCEPT ![proc[c]] = registry_remove(clients[proc[c]], c)]
    /\ online' = IF call = "srem" THEN online ELSE presence_remove(online, username[c])
    /\ exc' = Raised("on_close", "ConnectionError")
    /\ faults' = faults + 1
    /\ UNCHANGED <<proc, username, outbox, listenerVars, closing, pubBy, pubTo, pubSeq, dropped>>

\* on_message that writes the envelope to its own connection before it
\* publishes, with a publish that raises
on_message_echo_publish_fails(c, text) ==
    /\ status[c] = "open"
    /\ alive[c]
    /\ pubBy[text] = 0
    /\ Load < MaxLoad
    /\ faults < MaxFaults
    /\ outbox' = write_all(outbox, {c}, json_dumps(message_envelope(username[c], text)))
    /\ pubBy' = [pubBy EXCEPT ![text] = c]
    /\ dropped' = dropped \cup {text}
    /\ alive' = [alive EXCEPT ![c] = FALSE]
    /\ exc' = Raised("on_message", "ConnectionError")
    /\ faults' = faults + 1
    /\ UNCHANGED <<status, proc, username, clients, online, listenerVars, closing, pubTo,
                   pubSeq>>

\* on_message whose redis_client.publish (line 64) raises: the server was not
\* reached and has accepted nothing
on_message_publish_fails(c, text) ==
    /\ status[c] = "open"
    /\ alive[c]
    /\ pubBy[text] = 0
    /\ Load < MaxLoad
    /\ faults < MaxFaults
    /\ LET payload == json_dumps(message_envelope(username[c], text))
       IN  queue' = [p \in Procs |->
                        IF Subscribed(p)
                        THEN redis_publish(queue[p], [type |-> "message", data |-> payload], TRUE)
                        ELSE queue[p]]
    /\ pubBy' = [pubBy EXCEPT ![text] = c]
    /\ dropped' = dropped \cup {text}
    /\ alive' = [alive EXCEPT ![c] = FALSE]
    /\ exc' = Raised("on_message", "ConnectionError")
    /\ faults' = faults + 1
    /\ UNCHANGED <<status, proc, username, clients, online, outbox, lpc, cur, it_used,
                   it_rest, it_seen, lexc, closing, pubTo, pubSeq>>

NextFaulty ==
    \/ Next
    \/ \E c \in Conns, p \in Procs, arg \in UsernameArgs, call \in OpenStoreCalls :
          open_store_fails(c, p, arg, call)
    \/ \E c \in Conns, call \in CloseStoreCalls : on_close_store_fails(c, call)
    \/ \E c \in Conns, text \in Texts : on_message_publish_fails(c, text)

\* the program with a Redis server that may be unreachable for some calls
FaultSpec == Init /\ [][NextFaulty]_vars

\* ---- vocabulary of the properties ----
Open == {c \in Conns : status[c] = "open"}

OpenStep(c) == status[c] = "new" /\ status'[c] = "open"

CloseStep(c) == status[c] = "open" /\ status'[c] = "closed"

RosterPayload(names) == json_dumps(clients_envelope(names))

\* the chat envelope of the publication of t, as on_message serialised it
ChatPayload(t) ==
    IF pubBy[t] = 0 THEN NoData ELSE json_dumps(message_envelope(username[pubBy[t]], t))

\* the step wrote one Roster Update to d, and it lists names
GotRoster(d, names) ==
    /\ outbox'[d].nclients = outbox[d].nclients + 1
    /\ outbox'[d].clients = RosterPayload(names)

GotWelcome(d) ==
    outbox'[d].welcome = Append(outbox[d].welcome, json_dumps(welcome_envelope(username'[d])))

TimesReceived(c, payload) ==
    Cardinality({i \in 1..Len(outbox[c].chat) : outbox[c].chat[i] = payload})

\* C1: the Presence Set is exactly the set of usernames of the open connections.
C1_PresenceIsOpenUsernames ==
    online = {username[c] : c \in Open}

\* C2: every published message is eventually written, sender and text
\* unchanged, to every connection that was registered in a subscribed process
\* when it was published, unless that connection stops being open or writable.
C2_PublishedIsDelivered ==
    \A t \in Texts : \A c \in Conns :
        (pubBy[t] # 0 /\ c \in pubTo[t])
            ~> (status[c] = "closed" \/ ~alive[c] \/ TimesReceived(c, ChatPayload(t)) >= 1)

C4_SecondCloseRaisesNothing ==
    exc # Raised("on_close", "KeyError")

\* C5: while the listener iterates over the registry for one message, the
\* registry is the one its iterator saw, and the iteration never fails because
\* the set changed.
C5_RegistryFixedDuringPass ==
    \A p \in Procs :
        /\ lpc[p] = "deliver" => clients[p] = it_seen[p]
        /\ lexc[p] # "RuntimeError"

\* C6: a failed send to one registered connection never ends the listener, so
\* the message goes on to the remaining connections and later messages are read.
C6_FailedSendKeepsListener ==
    \A p \in Procs : lexc[p] # "WebSocketClosedError"

\* C7: the roster broadcast of an Open or a Close reaches every writable
\* connection of the registry although a send to another member failed, and
\* the Open goes on to send the Welcome Message.
C7_BroadcastIsolatesFailedSend ==
    [][\A c \in Conns :
          (OpenStep(c) \/ CloseStep(c)) =>
              /\ \A d \in clients'[proc'[c]] : alive'[d] => GotRoster(d, online')
              /\ OpenStep(c) => GotWelcome(c)]_vars

\* C8: a Close of one connection, returning or raising, leaves every other
\* connection's registry membership and username as they were, leaves what
\* on_message of the other connection reads as it was, and never turns a Close
\* of another connection that would return into one that raises.
C8_CloseIsolated ==
    [][\A c \in Conns :
          (CloseStep(c) \/ (status[c] = "closed" /\ exc' # exc /\ exc'.kind = "KeyError")) =>
              \A d \in Conns \ {c} :
                  /\ \A p \in Procs : (d \in clients'[p]) = (d \in clients[p])
                  /\ username'[d] = username[d]
                  /\ status'[d] = status[d] /\ alive'[d] = alive[d] /\ proc'[d] = proc[d]
                  /\ (status[d] = "open" /\ on_close_exception(clients[proc[d]], alive, d) = "none")
                        => on_close_exception(clients'[proc'[d]], alive', d) = "none"]_vars

\* C8 witness: a Close raised in its broadcast while another connection of the
\* same process is open, registered and writable.
C8_Witness ==
    /\ exc = Raised("on_close", "WebSocketClosedError")
    /\ \E c \in Conns : \E d \in Conns \ {c} :
          /\ status[c] = "closed" /\ status[d] = "open" /\ proc[c] = proc[d]
          /\ d \in clients[proc[d]] /\ alive[d] /\ username[d] # NoName

\* C9: an Open writes one Roster Update to every connection of the opener's
\* registry, the new one included; all get the same list, the Presence Set of
\* that moment, which holds the new username.
C9_OpenBroadcastsRoster ==
    [][\A c \in Conns :
          OpenStep(c) =>
              /\ username'[c] \in online'
              /\ \A d \in clients'[proc'[c]] : alive'[d] => GotRoster(d, online')]_vars

\* C10: a Close of c takes c out of the registry and its username out of the
\* Presence Set, every writable connection left in the registry gets a Roster
\* Update that is the usernames of the connections still open and does not list
\* c's username, and c gets nothing.
C10_CloseBroadcastsRoster ==
    [][\A c \in Conns :
          CloseStep(c) =>
              /\ c \notin clients'[proc[c]]
              /\ username[c] \notin online'
              /\ outbox'[c] = outbox[c]
              /\ \A d \in clients'[proc[c]] :
                    alive'[d] => GotRoster(d, {username'[e] : e \in {b \in Conns : status'[b] = "open"}})]_vars

\* C11: with several processes sharing the Presence Store, once Opens and
\* Closes have stopped the roster every open, writable connection holds (its
\* most recent Roster Update) is the Presence Set.  Stated for the runs in
\* which no channel fails, where no broadcast is cut short.
C11_RostersConverge ==
    \A c \in Conns :
        <>[](closing = 0 /\ status[c] = "open" => outbox[c].clients = RosterPayload(online))

\* Text t1 was published before text t2.
PublishedBefore(t1, t2) ==
    \E i, j \in 1..Len(pubSeq) : i < j /\ pubSeq[i] = t1 /\ pubSeq[j] = t2

\* C12: of two messages one connection published, every receiver that is
\* delivered both is delivered every copy of the earlier one before any copy of
\* the later one.
C12_PerSenderOrder ==
    \A t1, t2 \in Texts, c \in Conns :
        (PublishedBefore(t1, t2) /\ pubBy[t1] = pubBy[t2]) =>
            \A i, j \in 1..Len(outbox[c].chat) :
                (outbox[c].chat[i] = ChatPayload(t1) /\ outbox[c].chat[j] = ChatPayload(t2))
                    => i < j

C12_Witness ==
    \E t1, t2 \in Texts, c \in Conns :
        /\ PublishedBefore(t1, t2)
        /\ pubBy[t1] = pubBy[t2]
        /\ TimesReceived(c, ChatPayload(t1)) >= 1
        /\ TimesReceived(c, ChatPayload(t2)) >= 1

\* C13: a connection that has been opened has been sent exactly one Welcome,
\* the one greeting it by its own username, and nothing else has ever been
\* sent a Welcome.
C13_OneWelcomeEach ==
    \A c \in Conns :
        outbox[c].welcome =
            IF status[c] = "new" THEN <<>>
            ELSE <<json_dumps(welcome_envelope(username[c]))>>

\* "User-" followed by 8 characters
IsGeneratedName(name) ==
    /\ name # ""
    /\ Len(name) = 5 + 8
    /\ \E i \in DOMAIN Uuid4Pool : name = "User-" \o Uuid4Pool[i]

\* Every chat envelope published and not yet delivered, being delivered, or
\* delivered names as sender the username of the connection that published it.
ChatEnvelopes ==
    UNION {{json_loads(queue[p][i].data) : i \in 1..Len(queue[p])} : p \in Procs}
        \cup {cur[p] : p \in {q \in Procs : cur[q] # NoData}}
        \cup UNION {{json_loads(outbox[c].chat[i]) : i \in 1..Len(outbox[c].chat)} : c \in Conns}

SenderIsPublisher ==
    \A e \in ChatEnvelopes :
        /\ pubBy[e.data.message] # 0
        /\ e.data.sender = username[pubBy[e.data.message]]

UsernameKept == \A c \in Conns : username[c] # NoName => username'[c] = username[c]

\* C14: Open assigns "User-" and 8 characters when the requested username is
\* absent or empty, and otherwise exactly the username supplied; the username
\* never changes afterwards and is the sender of every chat envelope the
\* connection publishes.
C14_UsernameAsSupplied ==
    [][/\ \A c \in Conns, p \in Procs, arg \in UsernameArgs :
            open(c, p, arg) =>
                IF arg = NoArg \/ arg = ""
                THEN IsGeneratedName(username'[c])
                ELSE username'[c] = arg
       /\ UsernameKept
       /\ SenderIsPublisher']_vars

\* C14 with the requested username taken as get_argument returns it, that is
\* without its leading and trailing whitespace.
C14_UsernameAsStripped ==
    [][/\ \A c \in Conns, p \in Procs, arg \in UsernameArgs :
            open(c, p, arg) =>
                IF get_argument(arg) = NoArg \/ get_argument(arg) = ""
                THEN IsGeneratedName(username'[c])
                ELSE username'[c] = get_argument(arg)
       /\ UsernameKept
       /\ SenderIsPublisher']_vars

C14_Witness ==
    \E c, d, r \in Conns, t \in Texts :
        /\ IsGeneratedName(username[c])
        /\ username[d] = "alice"
        /\ pubBy[t] = d
        /\ TimesReceived(r, ChatPayload(t)) >= 1

\* C15: once Close of a connection has run, the connection is in no Connection
\* Registry and, unless another open connection has the same name, its
\* username is not in the Presence Set, also when a Presence Store call of its
\* Open or Close raised.
C15_CleanupAfterClose ==
    \A c \in Conns :
        status[c] = "closed" =>
            /\ \A p \in Procs : c \notin clients[p]
            /\ (\A d \in Open : username[d] # username[c]) => username[c] \notin online

\* No subscription holds, no listener is delivering and no connection has
\* received the chat envelope of a text whose publish raised.
DroppedForEveryone ==
    \A t \in dropped :
        /\ \A p \in Procs :
              /\ \A i \in 1..Len(queue[p]) : queue[p][i].data # ChatPayload(t)
              /\ cur[p] # NoData => json_dumps(cur[p]) # ChatPayload(t)
        /\ \A c \in Conns : TimesReceived(c, ChatPayload(t)) = 0

\* C16: an OnMessage whose publish raises leaves every Connection Registry and
\* the Presence Set unchanged, and no connection of any process, the sender
\* included, ever receives its chat envelope.
C16_FailedPublishDrops ==
    [][/\ (\E c \in Conns, t \in Texts : on_message_publish_fails(c, t))
             => (clients' = clients /\ online' = online)
       /\ DroppedForEveryone']_vars

C16_Witness ==
    \E t \in dropped, d \in Conns :
        /\ d \in clients[proc[pubBy[t]]]
        /\ d # pubBy[t]
        /\ alive[d]
        /\ lpc[proc[pubBy[t]]] = "listen"
        /\ pubBy[t] \in clients[proc[pubBy[t]]]

\* C17: when one of two open connections with the same username closes, the
\* Presence Set no longer contains that username, although the other
\* connection is still open and still in its Connection Registry.
C17_CloseDropsSharedName ==
    [][\A c, d \in Conns :
          (c # d /\ CloseStep(c) /\ status[d] = "open" /\ username[d] = username[c]) =>
              /\ username[c] \notin online'
              /\ status'[d] = "open"
              /\ d \in clients'[proc'[d]]]_vars

C17_Witness ==
    \E c, d \in Conns :
        /\ status[c] = "closed"
        /\ status[d] = "open"
        /\ alive[d]
        /\ d \in clients[proc[d]]
        /\ username[d] = username[c]
        /\ username[d] \notin online

\* C18: OnMessage, whether its publish succeeds or raises, and every step of
\* the Bus Listener leave the Connection Registry of every process and the
\* Presence Set as they were.
C18_OnlyOpenAndCloseChangeMembership ==
    [][(\/ \E c \in Conns, t \in Texts : on_message(c, t)
        \/ \E c \in Conns, t \in Texts : on_message_publish_fails(c, t)
        \/ \E p \in Procs : Listener(p))
          => (clients' = clients /\ online' = online)]_vars

C18_Witness ==
    \E c \in Conns, t \in Texts, p \in Procs :
        /\ c \in clients[p]
        /\ username[c] \in online
        /\ TimesReceived(c, ChatPayload(t)) >= 1
        /\ lpc[p] = "listen"
        /\ cur[p] = NoData

====
